---- MODULE Spec2Model ----
(***************************************************************************)
(* Peering Gossip (pgossip/pgossip.py, peering_gossip.py).                 *)
(*                                                                         *)
(* One process run: main() walks the configured exchanges and awaits       *)
(* PGossip.alice_host for each.  alice_host enumerates the route servers,  *)
(* gathers one process_route_server task per route server into the shared  *)
(* dict filtered_routes_sum, sorts and filters it, gathers one             *)
(* get_asn_details task per remaining ASN, renders the text, posts it as a *)
(* paste and writes reports/<host>.txt and reports/<host>.json.            *)
(*                                                                         *)
(* Text is a sequence of chunks.  A chunk is "|", " ", "\n" or an opaque   *)
(* non-empty piece holding none of these three at its ends or inside as a  *)
(* delimiter; str.split and str.strip only ever look at the three.         *)
(* A Python dict is a sequence of [k, v] records with distinct keys, in    *)
(* insertion order (dicts iterate in insertion order).                     *)
(***************************************************************************)
EXTENDS Integers, Sequences, FiniteSets, TLC

\* ------------------------------------------------------------------ bounds

NumIxps == 2
MaxRS == 2
MaxNeigh == 2
MaxFaults == 1

\* ------------------------------------------------------- program constants

max_tries == 5
PrivateAsn == 64567

\* ASNs the upstream may list: a public one and the private one.
ASNs == {100, PrivateAsn}

\* routes_filtered values the upstream may report.
RouteCounts == {0, 1}

None == [none |-> TRUE]

\* --------------------------------------------------------------- sequences

RECURSIVE JoinWith(_, _)
JoinWith(sep, ss) ==
    IF ss = <<>> THEN <<>>
    ELSE IF Len(ss) = 1 THEN ss[1]
    ELSE ss[1] \o sep \o JoinWith(sep, Tail(ss))

\* str.split(sep) for a one-chunk separator: the pieces between the
\* separators, always at least one piece.
Split(s, sep) ==
    LET pos == {i \in 1..Len(s) : s[i] = sep}
        n == Cardinality(pos)
        kth(k) == CHOOSE i \in pos : Cardinality({j \in pos : j < i}) = k - 1
        first(k) == IF k = 1 THEN 1 ELSE kth(k - 1) + 1
        last(k) == IF k = n + 1 THEN Len(s) ELSE kth(k) - 1
    IN [k \in 1..(n + 1) |-> SubSeq(s, first(k), last(k))]

IsSpace(c) == c \in {" ", "\n"}

\* str.strip(): drop the white space at both ends.
Strip(s) ==
    LET solid == {i \in 1..Len(s) : ~IsSpace(s[i])}
    IN IF solid = {} THEN <<>>
       ELSE SubSeq(s, CHOOSE i \in solid : \A j \in solid : i <= j,
                      CHOOSE i \in solid : \A j \in solid : i >= j)

Digits == <<"0", "1", "2", "3", "4", "5", "6", "7", "8", "9">>

\* str(n) for n >= 0
RECURSIVE IntToStr(_)
IntToStr(n) ==
    IF n < 10 THEN <<Digits[n + 1]>>
    ELSE Append(IntToStr(n \div 10), Digits[(n % 10) + 1])

\* int(s) for a numeral s, the inverse of IntToStr.
DigitVal(c) == CHOOSE d \in 0..9 : Digits[d + 1] = c

RECURSIVE StrToInt(_)
StrToInt(s) ==
    IF Len(s) = 1 THEN DigitVal(s[1])
    ELSE 10 * StrToInt(SubSeq(s, 1, Len(s) - 1)) + DigitVal(s[Len(s)])

\* ------------------------------------------------------------------- dicts

Keys(d) == {d[i].k : i \in 1..Len(d)}

HasKey(d, key) == \E i \in 1..Len(d) : d[i].k = key

Get(d, key) == d[CHOOSE i \in 1..Len(d) : d[i].k = key].v

\* d[key] = val: an existing key keeps its place, a new key goes last.
Put(d, key, val) ==
    IF HasKey(d, key)
    THEN [i \in 1..Len(d) |-> IF d[i].k = key THEN [k |-> key, v |-> val] ELSE d[i]]
    ELSE Append(d, [k |-> key, v |-> val])

\* ------------------------------------------------- alice_neighbours (pure)

\* The loop over data[neigh]: one dict entry per ASN, repeated entries summed.
RECURSIVE neighbour_dict_of(_, _)
neighbour_dict_of(entries, d) ==
    IF entries = <<>> THEN d
    ELSE LET n == Head(entries) IN
         neighbour_dict_of(
             Tail(entries),
             IF HasKey(d, n.asn)
             THEN Put(d, n.asn, Get(d, n.asn) + n.routes_filtered)
             ELSE Put(d, n.asn, n.routes_filtered))

\* Faulty variant of alice_neighbours_result: a 500 is treated like any other error.
alice_neighbours_result_500_raises(status, entries) ==
    IF status = 200
    THEN [raised |-> "no", none |-> FALSE, value |-> neighbour_dict_of(entries, <<>>)]
    ELSE [raised |-> "UnboundLocalError", none |-> TRUE, value |-> <<>>]

\* What alice_neighbours does with the response: the dict on 200, None on
\* 500, and on any other status the unassigned local neighbour_dict is
\* returned, which raises UnboundLocalError.
alice_neighbours_result(status, entries) ==
    IF status = 200
    THEN [raised |-> "no", none |-> FALSE, value |-> neighbour_dict_of(entries, <<>>)]
    ELSE IF status = 500 THEN [raised |-> "no", none |-> TRUE, value |-> <<>>]
    ELSE [raised |-> "UnboundLocalError", none |-> TRUE, value |-> <<>>]

\* ------------------------------------------- process_route_server (pure)

\* Faulty variant of accumulate: the total is assigned instead of added to.
RECURSIVE accumulate_overwrite(_, _)
accumulate_overwrite(filtered_routes_sum, filtered_routes) ==
    IF filtered_routes = <<>> THEN filtered_routes_sum
    ELSE accumulate_overwrite(
             Put(filtered_routes_sum, Head(filtered_routes).k, Head(filtered_routes).v),
             Tail(filtered_routes))

\* The loop over filtered_routes.items(): add into the shared dict.
RECURSIVE accumulate(_, _)
accumulate(filtered_routes_sum, filtered_routes) ==
    IF filtered_routes = <<>> THEN filtered_routes_sum
    ELSE LET neighbour == Head(filtered_routes).k
             froutes == Head(filtered_routes).v
         IN accumulate(
                IF HasKey(filtered_routes_sum, neighbour)
                THEN Put(filtered_routes_sum, neighbour,
                         Get(filtered_routes_sum, neighbour) + froutes)
                ELSE Put(filtered_routes_sum, neighbour, froutes),
                Tail(filtered_routes))

\* --------------------------------------------------- alice_host (pure)

\* Insert one item into a list already sorted by value, descending, after
\* every item whose value is not smaller: sorted() is stable, also with
\* reverse=True.
RECURSIVE insert_desc(_, _)
insert_desc(sorted, item) ==
    IF sorted = <<>> THEN <<item>>
    ELSE IF Head(sorted).v >= item.v
         THEN <<Head(sorted)>> \o insert_desc(Tail(sorted), item)
         ELSE <<item>> \o sorted

RECURSIVE sort_desc(_, _)
sort_desc(items, acc) ==
    IF items = <<>> THEN acc ELSE sort_desc(Tail(items), insert_desc(acc, Head(items)))

RECURSIVE insert_asc(_, _)
insert_asc(sorted, item) ==
    IF sorted = <<>> THEN <<item>>
    ELSE IF Head(sorted).v <= item.v
         THEN <<Head(sorted)>> \o insert_asc(Tail(sorted), item)
         ELSE <<item>> \o sorted

RECURSIVE sort_asc(_, _)
sort_asc(items, acc) ==
    IF items = <<>> THEN acc ELSE sort_asc(Tail(items), insert_asc(acc, Head(items)))

\* Faulty variant of filtered_routes_sorted: reverse=True is missing.
sorted_ascending(filtered_routes_sum) == sort_asc(filtered_routes_sum, <<>>)

\* dict(sorted(filtered_routes_sum.items(), key=value, reverse=True))
filtered_routes_sorted(filtered_routes_sum) == sort_desc(filtered_routes_sum, <<>>)

\* Faulty variant of filtered_routes_clean: the zero totals are kept.
keep_all(sorted) == sorted

\* {x: y for x, y in filtered_routes_sorted.items() if y != 0}
filtered_routes_clean(sorted) == SelectSeq(sorted, LAMBDA item : item.v # 0)

SEP == <<" ", "|", " ">>

\* The header line alice_host appends first.
header_line(url) ==
    <<"Filtered", " ", "prefixes", " ", "@", " ">> \o url \o SEP \o <<"ASN">> \o SEP
    \o <<"AS-NAME">> \o SEP \o <<"AS", " ", "Rank">> \o SEP \o <<"Source">> \o SEP
    \o <<"Country">> \o SEP \o <<"PeeringDB", " ", "link">>

\* "\n".join(map(str, text))
joined(text) == JoinWith(<<"\n">>, text)

\* ------------------------------------------------ get_asn_details (pure)

NA == <<"N", "A">>

\* Faulty variant of needs_lookup: the private ASN is looked up like any other.
always_lookup(asn) == TRUE

\* Line 162: every ASN but the private one of AMS-IX is looked up.
needs_lookup(asn) == asn # PrivateAsn

private_details ==
    [asnName |-> <<"Private", " ", "ASN">>, rank |-> NA, source |-> NA,
     country |-> [iso |-> <<"N", "L">>]]

na_details == [asnName |-> NA, rank |-> NA, source |-> NA, country |-> [iso |-> NA]]

\* details.get("asnName") is falsy: the key is absent or its value is empty.
name_missing(details) == "asnName" \notin DOMAIN details \/ details.asnName = <<>>

\* Lines 173-182: the defaults applied before formatting.
with_defaults(details) ==
    IF details # None
    THEN IF name_missing(details)
         THEN [f \in DOMAIN details \cup {"asnName"} |->
                  IF f = "asnName" THEN NA ELSE details[f]]
         ELSE details
    ELSE na_details

\* The subscriptions of the f-string: details['rank'], details['source'],
\* details['country']['iso'] raise KeyError when the key is absent.
format_raises(details) ==
    \/ "rank" \notin DOMAIN details
    \/ "source" \notin DOMAIN details
    \/ "country" \notin DOMAIN details
    \/ "iso" \notin DOMAIN details.country

format_row(pfxs, asn, details) ==
    IntToStr(pfxs) \o SEP \o IntToStr(asn) \o SEP \o details.asnName \o SEP
    \o details.rank \o SEP \o details.source \o SEP \o details.country.iso
    \o SEP \o <<"https://www.peeringdb.com/asn/">> \o IntToStr(asn)

\* Lines 173-187 on the details in hand: the row, or the KeyError.
asn_details_row(asn, pfxs, details) ==
    LET d == with_defaults(details) IN
    IF format_raises(d) THEN [raised |-> "KeyError", value |-> <<>>]
    ELSE [raised |-> "no", value |-> format_row(pfxs, asn, d)]

\* ---------------------------------------------------- parse_text_to_json

RECURSIVE zip_dict(_, _, _)
zip_dict(headers, values, d) ==
    IF headers = <<>> \/ values = <<>> THEN d
    ELSE zip_dict(Tail(headers), Tail(values), Put(d, Head(headers), Head(values)))

strip_all(parts) == [i \in 1..Len(parts) |-> Strip(parts[i])]

parse_text_to_json(data_text) ==
    LET lines == Split(Strip(data_text), "\n")
        headers == strip_all(Split(lines[1], "|"))
    IN [i \in 1..(Len(lines) - 1) |->
           zip_dict(headers, strip_all(Split(lines[i + 1], "|")), <<>>)]

\* ------------------------------------------------------------ RetryMeta

\* backoff.on_exception(backoff.expo, requests.exceptions.RequestException,
\* max_tries=5): only a RequestException is caught; an aiohttp ClientError,
\* a KeyError, an UnboundLocalError and SystemExit pass through.
retryable(exc) == exc = "RequestException"

\* After call number `tries` raised `exc`: sleep and call again, or re-raise.
on_exception(exc, tries) ==
    IF retryable(exc) /\ tries < max_tries THEN "retry" ELSE "raise"

\* Faulty variant of sys_exit: the exit is swallowed and the process goes on.
sys_exit_caught == "running"

\* sys.exit(1): SystemExit, which no wrapper and no Task catches.
sys_exit == "exited"

\* ------------------------------------------------------------------ inputs

\* The exchange URLs of pgossip/config.yaml.
url_of(i) == <<"https://ix", Digits[i + 1]>>

Neighbour == [asn : ASNs, routes_filtered : RouteCounts]

RECURSIVE SeqsUpTo(_, _)
SeqsUpTo(S, n) ==
    IF n = 0 THEN {<<>>}
    ELSE LET shorter == SeqsUpTo(S, n - 1)
         IN shorter \cup {Append(q, x) : q \in shorter, x \in S}

\* The neighbour arrays a 200 response may carry.
NeighbourLists == SeqsUpTo(Neighbour, MaxNeigh)

\* HTTP statuses of the neighbour listing.
NeighbourStatuses == {200, 500, 404}

full_details ==
    [asnName |-> <<"ACME">>, rank |-> <<"7">>, source |-> <<"RIPE">>,
     country |-> [iso |-> <<"D", "E">>]]

\* data["data"]["asn"] of a 200 registry response: null, a full record, a
\* record without asnName, a record without rank, a record whose asnName
\* holds a line break.
RegistryDetails ==
    {None,
     full_details,
     [rank |-> <<"7">>, source |-> <<"RIPE">>, country |-> [iso |-> <<"D", "E">>]],
     [asnName |-> <<"ACME">>, source |-> <<"RIPE">>, country |-> [iso |-> <<"D", "E">>]],
     [full_details EXCEPT !.asnName = <<"ACME", "\n", "Net">>]}

\* ------------------------------------------------------------------- state

VARIABLES
    proc,                 \* "running" | "finished" | "exited" | "crashed"
    cause,                \* the exception that ended the process, or ""
    ixp,                  \* main(): index of the exchange being processed
    hpc,                  \* where main()/alice_host stands
    host_tries,           \* calls of alice_host made by its retry wrapper
    rs_tries,             \* calls of alice_rs made by its retry wrapper
    report_tries,         \* calls of create_report made by its retry wrapper
    filtered_routes_sum,  \* alice_host's shared dict
    text,                 \* alice_host's list of lines
    tasks,                \* the coroutines of the gather in progress
    gather_exc,           \* the first exception a gathered task raised, or ""
    ready,                \* the event loop's FIFO of runnable tasks, 0 = main
    paste,                \* content posted to the paste service, or None
    files,                \* reports/<host>.txt and .json of exchange ixp, or None
    written,              \* earlier exchanges whose report files exist
    upstream_sum,         \* per ASN, the routes_filtered the 200 responses of
                          \* this report generation carried; -1 = never listed
    statuses,             \* per route server, the HTTP status of its listing; 0 = none yet
    whois_calls,          \* ASNs caida_asn_whois was called for
    fatal_at,             \* exchange at which sys.exit(1) was called, or 0
    faults                \* network-level failures injected so far

vars ==
    <<proc, cause, ixp, hpc, host_tries, rs_tries, report_tries,
      filtered_routes_sum, text, tasks, gather_exc, ready, paste, files,
      written, upstream_sum, statuses, whois_calls, fatal_at, faults>>

no_upstream == [a \in ASNs |-> -1]

Init ==
    /\ proc = "running"
    /\ cause = ""
    /\ ixp = 0
    /\ hpc = "main"
    /\ host_tries = 0
    /\ rs_tries = 0
    /\ report_tries = 0
    /\ filtered_routes_sum = <<>>
    /\ text = <<>>
    /\ tasks = <<>>
    /\ gather_exc = ""
    /\ ready = <<>>
    /\ paste = None
    /\ files = None
    /\ written = {}
    /\ upstream_sum = no_upstream
    /\ statuses = <<>>
    /\ whois_calls = {}
    /\ fatal_at = 0
    /\ faults = 0

\* ----------------------------------------------------------------- helpers

new_task(asn, pfxs) ==
    [pc |-> "ready", fn_tries |-> 1, call_tries |-> 1, asn |-> asn, pfxs |-> pfxs,
     details |-> None, result |-> <<>>]

all_done(ts) == \A i \in 1..Len(ts) : ts[i].pc = "done"

first_n(n) == [i \in 1..n |-> i]

\* asyncio.gather: main resumes when every task is done, or at the first
\* exception (the other tasks keep running).
gather_wakes(ts, exc_before, exc_now) ==
    \/ exc_before = "" /\ exc_now # ""
    \/ exc_now = "" /\ all_done(ts)

\* Lines 86-89: a fresh call of alice_host up to the awaited alice_rs.
enter_alice_host ==
    /\ filtered_routes_sum' = <<>>
    /\ text' = <<>>
    /\ tasks' = <<>>
    /\ gather_exc' = ""
    /\ ready' = <<>>
    /\ rs_tries' = 1
    /\ report_tries' = 0
    /\ upstream_sum' = no_upstream
    /\ statuses' = <<>>
    /\ whois_calls' = {}
    /\ hpc' = "alice_rs"

\* SystemExit leaves the event loop: the process is gone.
exit_process ==
    /\ proc' = sys_exit
    /\ fatal_at' = ixp
    /\ UNCHANGED <<cause, ixp, hpc, host_tries, rs_tries, report_tries,
                   filtered_routes_sum, text, tasks, gather_exc, ready, paste,
                   files, written, upstream_sum, statuses, whois_calls, faults>>

\* An exception raised inside alice_host reaches alice_host's own retry
\* wrapper: a RequestException makes it sleep and call alice_host again with
\* fresh locals (tasks of the abandoned gather only hold the abandoned dict),
\* anything else leaves main() and ends the process with a traceback.
raise_in_alice_host(exc) ==
    IF on_exception(exc, host_tries) = "retry"
    THEN /\ host_tries' = host_tries + 1
         /\ enter_alice_host
         /\ UNCHANGED <<proc, cause>>
    ELSE /\ proc' = "crashed"
         /\ cause' = exc
         /\ UNCHANGED <<hpc, ready, host_tries, rs_tries, report_tries,
                        filtered_routes_sum, text, tasks, gather_exc,
                        upstream_sum, statuses, whois_calls>>

\* A RequestException raised by the HTTP call of a gathered task: the
\* wrapper of the calling method (alice_neighbours, caida_asn_whois) retries
\* first, then the wrapper of the task's own method (process_route_server,
\* get_asn_details), then the task ends with the exception.
task_on_request_exception(t) ==
    IF on_exception("RequestException", t.call_tries) = "retry"
    THEN [t EXCEPT !.pc = "backoff", !.call_tries = @ + 1]
    ELSE IF on_exception("RequestException", t.fn_tries) = "retry"
    THEN [t EXCEPT !.pc = "backoff", !.fn_tries = @ + 1, !.call_tries = 1]
    ELSE [t EXCEPT !.pc = "failed"]

\* The event loop after task i ran to its next await and became t.
task_stepped(i, t, exc) ==
    LET ts == [tasks EXCEPT ![i] = t]
        now == IF gather_exc = "" THEN exc ELSE gather_exc
    IN /\ tasks' = ts
       /\ gather_exc' = now
       /\ ready' = IF gather_wakes(ts, gather_exc, now)
                   THEN Append(Tail(ready), 0) ELSE Tail(ready)

RECURSIVE sum_of(_, _)
sum_of(entries, asn) ==
    IF entries = <<>> THEN 0
    ELSE (IF Head(entries).asn = asn THEN Head(entries).routes_filtered ELSE 0)
         + sum_of(Tail(entries), asn)

lists(entries, asn) == \E i \in 1..Len(entries) : entries[i].asn = asn

\* The body of a 200 neighbour listing as the upstream sent it.
upstream_after(entries) ==
    [a \in ASNs |->
        IF lists(entries, a)
        THEN (IF upstream_sum[a] = -1 THEN 0 ELSE upstream_sum[a]) + sum_of(entries, a)
        ELSE upstream_sum[a]]

\* ------------------------------------------------------------------ main()

\* The for loop of main(): call alice_host for the next configured exchange.
main_next_exchange ==
    /\ proc = "running" /\ hpc = "main" /\ ixp < NumIxps
    /\ ixp' = ixp + 1
    /\ written' = IF files = None THEN written ELSE written \cup {ixp}
    /\ files' = None
    /\ paste' = None
    /\ host_tries' = 1
    /\ enter_alice_host
    /\ UNCHANGED <<proc, cause, fatal_at, faults>>

\* The loop is over: main() returns.
main_return ==
    /\ proc = "running" /\ hpc = "main" /\ ixp = NumIxps
    /\ proc' = "finished"
    /\ UNCHANGED <<cause, ixp, hpc, host_tries, rs_tries, report_tries,
                   filtered_routes_sum, text, tasks, gather_exc, ready, paste,
                   files, written, upstream_sum, statuses, whois_calls, fatal_at,
                   faults>>

\* --------------------------------------------------------------- alice_rs

\* The route-server listing answered 200 with n route servers: lines 91-94
\* create one process_route_server task per route server and await them.
alice_rs_ok ==
    /\ proc = "running" /\ hpc = "alice_rs"
    /\ \E n \in 0..MaxRS :
          /\ tasks' = [i \in 1..n |-> new_task(0, 0)]
          /\ statuses' = [i \in 1..n |-> 0]
          /\ ready' = IF n = 0 THEN <<0>> ELSE first_n(n)
    /\ hpc' = "gather_rs"
    /\ UNCHANGED <<proc, cause, ixp, host_tries, rs_tries, report_tries,
                   filtered_routes_sum, text, gather_exc, paste, files, written,
                   upstream_sum, whois_calls, fatal_at, faults>>

\* The listing answered with another status: sys.exit(1).
alice_rs_status_error ==
    /\ proc = "running" /\ hpc = "alice_rs"
    /\ exit_process

\* aiohttp raised (connection refused, timeout, ...): an aiohttp.ClientError,
\* which is no requests.exceptions.RequestException.
alice_rs_network_error ==
    /\ proc = "running" /\ hpc = "alice_rs"
    /\ faults < MaxFaults
    /\ faults' = faults + 1
    /\ IF on_exception("ClientError", rs_tries) = "retry"
       THEN /\ rs_tries' = rs_tries + 1
            /\ UNCHANGED <<proc, cause, hpc, ready, host_tries, report_tries,
                           filtered_routes_sum, text, tasks, gather_exc,
                           upstream_sum, statuses, whois_calls>>
       ELSE /\ raise_in_alice_host("ClientError")
    /\ UNCHANGED <<ixp, paste, files, written, fatal_at>>

\* ---------------------------------------------------- process_route_server

\* Lines 134-144 up to the sleep: the listing answers with a status, the
\* response is folded into the shared dict, the task starts its sleep(60).
\* requests is blocking: nothing else runs between the fetch and the update.
process_route_server_fetch(i) ==
    /\ proc = "running" /\ hpc = "gather_rs"
    /\ ready # <<>> /\ Head(ready) = i /\ i >= 1
    /\ tasks[i].pc = "ready"
    /\ \E status \in NeighbourStatuses :
       \E entries \in (IF status = 200 THEN NeighbourLists ELSE {<<>>}) :
          LET r == alice_neighbours_result(status, entries) IN
          /\ statuses' = [statuses EXCEPT ![i] = status]
          /\ IF r.raised # "no"
             THEN /\ task_stepped(i, [tasks[i] EXCEPT !.pc = "failed"], r.raised)
                  /\ UNCHANGED <<filtered_routes_sum, upstream_sum>>
             ELSE IF r.none
             THEN /\ task_stepped(i, [tasks[i] EXCEPT !.pc = "done"], "")
                  /\ UNCHANGED <<filtered_routes_sum, upstream_sum>>
             ELSE /\ filtered_routes_sum' = accumulate(filtered_routes_sum, r.value)
                  /\ upstream_sum' = upstream_after(entries)
                  /\ task_stepped(i, [tasks[i] EXCEPT !.pc = "sleep"], "")
    /\ UNCHANGED <<proc, cause, ixp, hpc, host_tries, rs_tries, report_tries, text,
                   paste, files, written, whois_calls, fatal_at, faults>>

\* requests raised instead of answering: a RequestException.
process_route_server_network_error(i) ==
    /\ proc = "running" /\ hpc = "gather_rs"
    /\ ready # <<>> /\ Head(ready) = i /\ i >= 1
    /\ tasks[i].pc = "ready"
    /\ faults < MaxFaults
    /\ faults' = faults + 1
    /\ LET t == task_on_request_exception(tasks[i])
       IN task_stepped(i, t, IF t.pc = "failed" THEN "RequestException" ELSE "")
    /\ UNCHANGED <<proc, cause, ixp, hpc, host_tries, rs_tries, report_tries,
                   filtered_routes_sum, text, paste, files, written, upstream_sum,
                   statuses, whois_calls, fatal_at>>

\* The sleep(60) is over: process_route_server returns.
process_route_server_return(i) ==
    /\ proc = "running" /\ hpc = "gather_rs"
    /\ ready # <<>> /\ Head(ready) = i /\ i >= 1
    /\ tasks[i].pc = "woken"
    /\ task_stepped(i, [tasks[i] EXCEPT !.pc = "done"], "")
    /\ UNCHANGED <<proc, cause, ixp, hpc, host_tries, rs_tries, report_tries,
                   filtered_routes_sum, text, paste, files, written, upstream_sum,
                   statuses, whois_calls, fatal_at, faults>>

\* A timer of the event loop fires: the sleeping task becomes runnable.
timer_fires(i) ==
    /\ proc = "running" /\ hpc \in {"gather_rs", "gather_asn"}
    /\ i \in 1..Len(tasks)
    /\ tasks[i].pc \in {"backoff", "sleep"}
    /\ tasks' = [tasks EXCEPT ![i].pc = IF @ = "backoff" THEN "ready" ELSE "woken"]
    /\ ready' = Append(ready, i)
    /\ UNCHANGED <<proc, cause, ixp, hpc, host_tries, rs_tries, report_tries,
                   filtered_routes_sum, text, gather_exc, paste, files, written,
                   upstream_sum, statuses, whois_calls, fatal_at, faults>>

\* ----------------------------------------------------- alice_host, part 2

\* Lines 94-111: the gather returned; sort, drop the zeros, append the
\* header, create one get_asn_details task per remaining ASN.
alice_host_after_route_servers ==
    /\ proc = "running" /\ hpc = "gather_rs"
    /\ ready # <<>> /\ Head(ready) = 0
    /\ IF gather_exc # ""
       THEN /\ raise_in_alice_host(gather_exc)
       ELSE LET clean == filtered_routes_clean(filtered_routes_sorted(filtered_routes_sum))
            IN /\ text' = Append(text, header_line(url_of(ixp)))
               /\ tasks' = [i \in 1..Len(clean) |-> new_task(clean[i].k, clean[i].v)]
               /\ ready' = IF clean = <<>> THEN <<0>> ELSE first_n(Len(clean))
               /\ hpc' = "gather_asn"
               /\ UNCHANGED <<proc, cause, host_tries, rs_tries, report_tries,
                              filtered_routes_sum, gather_exc, upstream_sum,
                              statuses, whois_calls>>
    /\ UNCHANGED <<ixp, paste, files, written, fatal_at, faults>>

\* --------------------------------------------------------- get_asn_details

\* Lines 162-171 for the private ASN: no lookup, no sleep; the row is
\* formatted and the task is done in its first step.
get_asn_details_private(i) ==
    /\ proc = "running" /\ hpc = "gather_asn"
    /\ ready # <<>> /\ Head(ready) = i /\ i >= 1
    /\ tasks[i].pc = "ready"
    /\ ~needs_lookup(tasks[i].asn)
    /\ LET r == asn_details_row(tasks[i].asn, tasks[i].pfxs, private_details) IN
       IF r.raised # "no"
       THEN task_stepped(i, [tasks[i] EXCEPT !.pc = "failed"], r.raised)
       ELSE task_stepped(i, [tasks[i] EXCEPT !.pc = "done", !.details = None, !.result = r.value], "")
    /\ UNCHANGED <<proc, cause, ixp, hpc, host_tries, rs_tries, report_tries,
                   filtered_routes_sum, text, paste, files, written, upstream_sum,
                   statuses, whois_calls, fatal_at, faults>>

\* Lines 162-164 for any other ASN: caida_asn_whois answers 200 with
\* data.asn = details, then the task starts its sleep(0.5).
get_asn_details_lookup(i) ==
    /\ proc = "running" /\ hpc = "gather_asn"
    /\ ready # <<>> /\ Head(ready) = i /\ i >= 1
    /\ tasks[i].pc = "ready"
    /\ needs_lookup(tasks[i].asn)
    /\ whois_calls' = whois_calls \cup {tasks[i].asn}
    /\ \E details \in RegistryDetails :
          task_stepped(i, [tasks[i] EXCEPT !.pc = "sleep", !.details = details], "")
    /\ UNCHANGED <<proc, cause, ixp, hpc, host_tries, rs_tries, report_tries,
                   filtered_routes_sum, text, paste, files, written, upstream_sum,
                   statuses, fatal_at, faults>>

\* caida_asn_whois answers 200 and the body has no data.asn: KeyError.
get_asn_details_no_data(i) ==
    /\ proc = "running" /\ hpc = "gather_asn"
    /\ ready # <<>> /\ Head(ready) = i /\ i >= 1
    /\ tasks[i].pc = "ready"
    /\ needs_lookup(tasks[i].asn)
    /\ whois_calls' = whois_calls \cup {tasks[i].asn}
    /\ task_stepped(i, [tasks[i] EXCEPT !.pc = "failed"], "KeyError")
    /\ UNCHANGED <<proc, cause, ixp, hpc, host_tries, rs_tries, report_tries,
                   filtered_routes_sum, text, paste, files, written, upstream_sum,
                   statuses, fatal_at, faults>>

\* caida_asn_whois answers with another status: sys.exit(1) inside the task.
get_asn_details_status_error(i) ==
    /\ proc = "running" /\ hpc = "gather_asn"
    /\ ready # <<>> /\ Head(ready) = i /\ i >= 1
    /\ tasks[i].pc = "ready"
    /\ needs_lookup(tasks[i].asn)
    /\ whois_calls' = whois_calls \cup {tasks[i].asn}
    /\ proc' = sys_exit
    /\ fatal_at' = ixp
    /\ UNCHANGED <<cause, ixp, hpc, host_tries, rs_tries, report_tries,
                   filtered_routes_sum, text, tasks, gather_exc, ready, paste,
                   files, written, upstream_sum, statuses, faults>>

\* requests raised inside caida_asn_whois: a RequestException.
get_asn_details_network_error(i) ==
    /\ proc = "running" /\ hpc = "gather_asn"
    /\ ready # <<>> /\ Head(ready) = i /\ i >= 1
    /\ tasks[i].pc = "ready"
    /\ needs_lookup(tasks[i].asn)
    /\ faults < MaxFaults
    /\ faults' = faults + 1
    /\ whois_calls' = whois_calls \cup {tasks[i].asn}
    /\ LET t == task_on_request_exception(tasks[i])
       IN task_stepped(i, t, IF t.pc = "failed" THEN "RequestException" ELSE "")
    /\ UNCHANGED <<proc, cause, ixp, hpc, host_tries, rs_tries, report_tries,
                   filtered_routes_sum, text, paste, files, written, upstream_sum,
                   statuses, fatal_at>>

\* Lines 173-187 after the sleep(0.5): defaults, then the f-string.
get_asn_details_format(i) ==
    /\ proc = "running" /\ hpc = "gather_asn"
    /\ ready # <<>> /\ Head(ready) = i /\ i >= 1
    /\ tasks[i].pc = "woken"
    /\ LET r == asn_details_row(tasks[i].asn, tasks[i].pfxs, tasks[i].details) IN
       IF r.raised # "no"
       THEN task_stepped(i, [tasks[i] EXCEPT !.pc = "failed"], r.raised)
       ELSE task_stepped(i, [tasks[i] EXCEPT !.pc = "done", !.details = None, !.result = r.value], "")
    /\ UNCHANGED <<proc, cause, ixp, hpc, host_tries, rs_tries, report_tries,
                   filtered_routes_sum, text, paste, files, written, upstream_sum,
                   statuses, whois_calls, fatal_at, faults>>

\* ----------------------------------------------------- alice_host, part 3

\* asyncio.gather returns the results in the order of the awaitables.
gather_results(ts) == [i \in 1..Len(ts) |-> ts[i].result]

\* Lines 111-116: the gather returned; every detail is appended to text.
alice_host_after_asn_details ==
    /\ proc = "running" /\ hpc = "gather_asn"
    /\ ready # <<>> /\ Head(ready) = 0
    /\ IF gather_exc # ""
       THEN /\ raise_in_alice_host(gather_exc)
       ELSE /\ text' = text \o gather_results(tasks)
            /\ hpc' = "create_report"
            /\ report_tries' = 1
            /\ UNCHANGED <<proc, cause, ready, host_tries, rs_tries,
                           filtered_routes_sum, tasks, gather_exc, upstream_sum,
                           statuses, whois_calls>>
    /\ UNCHANGED <<ixp, paste, files, written, fatal_at, faults>>

\* write_report_to_file: what lands in the file.
write_report_to_file(data, as_json) ==
    IF as_json THEN parse_text_to_json(data) ELSE data

\* Lines 117-121: the paste service answers 200; both files are written and
\* alice_host returns to main().
create_report_ok ==
    /\ proc = "running" /\ hpc = "create_report"
    /\ paste' = [content |-> joined(text)]
    /\ files' = [txt |-> write_report_to_file(joined(text), FALSE),
                 json |-> write_report_to_file(joined(text), TRUE)]
    /\ hpc' = "main"
    /\ ready' = <<>>
    /\ UNCHANGED <<proc, cause, ixp, host_tries, rs_tries, report_tries,
                   filtered_routes_sum, text, tasks, gather_exc, written,
                   upstream_sum, statuses, whois_calls, fatal_at, faults>>

\* The paste service answers with another status: sys.exit(1).
create_report_status_error ==
    /\ proc = "running" /\ hpc = "create_report"
    /\ exit_process

\* requests.post raised: create_report's wrapper retries, then alice_host's.
create_report_network_error ==
    /\ proc = "running" /\ hpc = "create_report"
    /\ faults < MaxFaults
    /\ faults' = faults + 1
    /\ IF on_exception("RequestException", report_tries) = "retry"
       THEN /\ hpc' = "report_backoff"
            /\ UNCHANGED <<proc, cause, ready, host_tries, rs_tries, report_tries,
                           filtered_routes_sum, text, tasks, gather_exc,
                           upstream_sum, statuses, whois_calls>>
       ELSE /\ raise_in_alice_host("RequestException")
    /\ UNCHANGED <<ixp, paste, files, written, fatal_at>>

\* The backoff sleep of create_report's wrapper is over: post again.
create_report_retry ==
    /\ proc = "running" /\ hpc = "report_backoff"
    /\ hpc' = "create_report"
    /\ report_tries' = report_tries + 1
    /\ UNCHANGED <<proc, cause, ixp, host_tries, rs_tries, filtered_routes_sum, text,
                   tasks, gather_exc, ready, paste, files, written, upstream_sum,
                   statuses, whois_calls, fatal_at, faults>>

\* A gather holds at most one task per route server or per ASN.
TaskIds == 1..(IF MaxRS > Cardinality(ASNs) THEN MaxRS ELSE Cardinality(ASNs))

Next ==
    \/ main_next_exchange
    \/ main_return
    \/ alice_rs_ok
    \/ alice_rs_status_error
    \/ alice_rs_network_error
    \/ \E i \in TaskIds : process_route_server_fetch(i)
    \/ \E i \in TaskIds : process_route_server_network_error(i)
    \/ \E i \in TaskIds : process_route_server_return(i)
    \/ \E i \in TaskIds : timer_fires(i)
    \/ alice_host_after_route_servers
    \/ \E i \in TaskIds : get_asn_details_private(i)
    \/ \E i \in TaskIds : get_asn_details_lookup(i)
    \/ \E i \in TaskIds : get_asn_details_no_data(i)
    \/ \E i \in TaskIds : get_asn_details_status_error(i)
    \/ \E i \in TaskIds : get_asn_details_network_error(i)
    \/ \E i \in TaskIds : get_asn_details_format(i)
    \/ alice_host_after_asn_details
    \/ create_report_ok
    \/ create_report_status_error
    \/ create_report_network_error
    \/ create_report_retry

Spec == Init /\ [][Next]_vars

\* ---------------------------------------------------------------- reading

\* Every gathered process_route_server task has finished, or alice_host is
\* already past that gather.
route_servers_finished ==
    \/ hpc \in {"gather_asn", "create_report", "report_backoff"}
    \/ hpc = "main" /\ ixp > 0
    \/ hpc = "gather_rs" /\ \A i \in 1..Len(tasks) : tasks[i].pc \in {"done", "failed"}

\* text holds the header and every detail line.
report_rendered ==
    \/ hpc \in {"create_report", "report_backoff"}
    \/ hpc = "main" /\ ixp > 0

row_fields(row) == strip_all(Split(row, "|"))

row_pfxs(row) == StrToInt(row_fields(row)[1])

row_asn(row) == StrToInt(row_fields(row)[2])

total_of(asn) ==
    IF HasKey(filtered_routes_sum, asn) THEN Get(filtered_routes_sum, asn) ELSE 0

\* ------------------------------------------------------------------ claims

\* C1: once every process_route_server task of one report generation has
\* finished, the accumulator holds for every ASN exactly the sum of its
\* routes_filtered over all entries of all 200 responses, and no key for an
\* ASN no 200 response listed.
C1_SumExact ==
    route_servers_finished =>
        \A a \in ASNs :
            IF upstream_sum[a] = -1
            THEN ~HasKey(filtered_routes_sum, a)
            ELSE HasKey(filtered_routes_sum, a)
                 /\ Get(filtered_routes_sum, a) = upstream_sum[a]

\* C1 witness: two route servers answered 200 and finished; ASN 100 was
\* listed twice by one of them and once by the other.
C1_Witness ==
    /\ hpc = "gather_rs"
    /\ Len(tasks) = 2
    /\ \A i \in 1..2 : tasks[i].pc = "done" /\ statuses[i] = 200
    /\ upstream_sum[100] = 3
    /\ faults = 1

\* C2: an ASN whose final total is zero gets no get_asn_details task, no
\* registry call and no data row; every ASN with a nonzero total gets
\* exactly one data row.
C2_ZeroTotalsOmitted ==
    /\ hpc = "gather_asn" =>
          /\ \A i \in 1..Len(tasks) : total_of(tasks[i].asn) # 0
          /\ \A a \in whois_calls : total_of(a) # 0
    /\ report_rendered =>
          /\ \A a \in whois_calls : total_of(a) # 0
          /\ \A a \in ASNs :
                Cardinality({i \in 2..Len(text) : row_asn(text[i]) = a})
                    = IF total_of(a) # 0 THEN 1 ELSE 0

\* C2 witness: the files are written, the private ASN ended with total
\* zero, ASN 100 with a nonzero total, and the report has one data row.
C2_Witness ==
    /\ files # None
    /\ HasKey(filtered_routes_sum, PrivateAsn) /\ total_of(PrivateAsn) = 0
    /\ total_of(100) # 0
    /\ Len(text) = 2

\* C3: the data rows of the rendered report are in non-increasing order of
\* their filtered-route count.
C3_RowsDescending ==
    report_rendered =>
        \A i \in 2..(Len(text) - 1) : row_pfxs(text[i]) >= row_pfxs(text[i + 1])

\* C3 witness: two data rows with different counts; the first row is the
\* looked-up ASN, whose task finished after the private ASN's task.
C3_Witness ==
    /\ files # None
    /\ Len(text) = 3
    /\ row_asn(text[2]) = 100 /\ row_asn(text[3]) = PrivateAsn
    /\ row_pfxs(text[2]) > row_pfxs(text[3])

\* C4: a route server whose listing returned 500 is skipped, its task ends
\* without an exception and adds nothing to the accumulator; a route server
\* whose listing returned another non-200 status fails the gather and no
\* paste and no file is produced for the exchange.
C4_Status500Skipped ==
    /\ \A i \in 1..Len(statuses) :
          /\ statuses[i] = 500 /\ hpc = "gather_rs" => tasks[i].pc = "done"
          /\ statuses[i] \notin {0, 200, 500} =>
                /\ hpc = "gather_rs" /\ tasks[i].pc = "failed"
                /\ gather_exc # ""
                /\ paste = None /\ files = None
    /\ (\A i \in 1..Len(statuses) : statuses[i] \in {0, 500}) =>
          filtered_routes_sum = <<>>

\* C4 witness: a report was written for an exchange one of whose route
\* servers returned 500 while the other contributed.
C4_Witness ==
    /\ files # None
    /\ \E i, j \in 1..Len(statuses) : statuses[i] = 500 /\ statuses[j] = 200
    /\ filtered_routes_sum # <<>>

\* C5: after sys.exit(1) the process is gone: the exchange being processed
\* has no report file, and no later exchange is processed.
C5_FatalEndsProcess ==
    /\ fatal_at # 0 =>
          /\ proc = "exited"
          /\ ixp = fatal_at
          /\ files = None
          /\ written \subseteq 1..(fatal_at - 1)
    /\ proc = "exited" => fatal_at # 0

\* C5 witness: the registry answered a lookup of the first exchange with a
\* non-200 status while a second exchange is still to come.
C5_Witness ==
    /\ proc = "exited"
    /\ hpc = "gather_asn"
    /\ ixp = 1 /\ ixp < NumIxps

\* C6: the private ASN is never looked up, and its row carries the fixed
\* fields Private ASN, NA, NA, NL.
C6_PrivateAsnSynthetic ==
    /\ PrivateAsn \notin whois_calls
    /\ report_rendered =>
          \A i \in 2..Len(text) :
              row_asn(text[i]) = PrivateAsn =>
                  /\ row_fields(text[i])[3] = <<"Private", " ", "ASN">>
                  /\ row_fields(text[i])[4] = NA
                  /\ row_fields(text[i])[5] = NA
                  /\ row_fields(text[i])[6] = <<"N", "L">>

\* C6 witness: a written report with a row for the private ASN.
C6_Witness ==
    /\ files # None
    /\ \E i \in 2..Len(text) : row_asn(text[i]) = PrivateAsn

\* C7: parsing the rendered text yields one record per non-header line, in
\* order, each with exactly the header's trimmed tokens as field names, and
\* the .json file is the parse of the .txt file.
C7_RoundTrip ==
    files # None =>
        LET lines == Split(files.txt, "\n")
            tokens == {Strip(Split(lines[1], "|")[k]) : k \in 1..Len(Split(lines[1], "|"))}
        IN /\ files.json = parse_text_to_json(files.txt)
           /\ Len(files.json) = Len(lines) - 1
           /\ \A k \in 1..Len(files.json) : Keys(files.json[k]) = tokens

\* C8: a lookup that returned a detail record never makes get_asn_details
\* fail, and every row it returns has the seven columns of the header.
C8_MissingFieldsBecomeNA ==
    hpc = "gather_asn" =>
        \A i \in 1..Len(tasks) :
            /\ tasks[i].details # None => tasks[i].pc # "failed"
            /\ tasks[i].pc = "done" => Len(row_fields(tasks[i].result)) = 7

\* C9: a network-level failure of the route-server enumeration propagates
\* only after alice_rs was attempted max_tries times.
C9_AliceRsRetried ==
    cause = "ClientError" => rs_tries = max_tries

\* The sleep(60) that follows route server i's fetch is over.
paced(i) == statuses[i] = 200 /\ tasks[i].pc \in {"woken", "done"}

\* C10: of any two route servers whose listings were fetched, the pacing
\* delay of one elapsed before the other was fetched.
C10_PacingSeparatesFetches ==
    hpc = "gather_rs" =>
        \A i, j \in 1..Len(tasks) :
            i # j /\ statuses[i] # 0 /\ statuses[j] # 0 => paced(i) \/ paced(j)

====
